---- MODULE Spec2Model ----
(***************************************************************************)
(* Model of the four relay handlers of streamlit_app.py:                   *)
(*   POST /api/start-session   start_session                               *)
(*   POST /api/chat            chat_with_openai                            *)
(*   POST /api/transcribe      transcribe_audio                            *)
(*   POST /api/stop-session    stop_session                                *)
(* One request is followed from its arrival to its response.  The handlers *)
(* share no mutable state, so concurrent requests cannot influence each    *)
(* other and one request at a time shows every behaviour of a handler.     *)
(* The upstream providers are the environment: each upstream call draws    *)
(* its outcome from the set of outcomes the client library can deliver.    *)
(***************************************************************************)
EXTENDS Naturals, Sequences, FiniteSets, TLC

VARIABLES
    pc,             \* position of the request: idle, a handler step, or done
    handler,        \* the endpoint function serving the request
    req,            \* the request's input (JSON body or multipart form)
    r_new,          \* outcome of requests.post(streaming.new)
    r_token,        \* outcome of requests.post(streaming.create_token)
    completion,     \* outcome of openai_client.chat.completions.create
    transcription,  \* outcome of openai_client.audio.transcriptions.create
    r_stop,         \* outcome of requests.post(streaming.stop)
    calls,          \* the upstream calls issued by the request, in order
    resp            \* the HTTP response of the request

vars == <<pc, handler, req, r_new, r_token, completion, transcription, r_stop, calls, resp>>

\* Longest list of choices the completion endpoint returns in the model.
MaxChoices == 2

(***************************************************************************)
(* JSON / Python values.  A key that is absent, a null, and the empty      *)
(* string are kept apart: dict.get turns the first into None, and the      *)
(* truth test `not x` rejects all three.                                   *)
(***************************************************************************)
MISSING == "<missing>"
NULL == "<null>"

\* dict.get(key): None when the key is absent
Get(v) == IF v = MISSING THEN NULL ELSE v

\* Python truth value of None / str
Truthy(v) == v \notin {MISSING, NULL, ""}

\* An optional JSON list is <<>> when the key is absent and <<list>> when present.
ABSENT == <<>>
Present(l) == <<l>>
TruthyList(o) == o # ABSENT /\ Len(o[1]) > 0

\* Exceptions in flight: the class and, for HTTPException, its status code
Exc(type, status) == [type |-> type, status |-> status]
NoExc == Exc("none", 0)

\* fastapi.HTTPException derives from Exception, as every class raised here does
ExceptionClasses ==
    {"HTTPException", "JSONDecodeError", "AttributeError", "IndexError",
     "Timeout", "ConnectionError", "HTTPError", "APIError"}

\* `except Exception` matches e
CatchesException(e) == e.type \in ExceptionClasses

(***************************************************************************)
(* Requests                                                                *)
(***************************************************************************)
NoReq ==
    [kind |-> "none", text |-> MISSING, session_id |-> MISSING,
     session_token |-> MISSING, audio_kind |-> "missing", audio_str |-> MISSING]

\* kind of a JSON body: "invalid" (request.json() raises), "nonobject" (a JSON
\* list, string, number or null: it has no .get), "object"
ChatRequests ==
    {[NoReq EXCEPT !.kind = k] : k \in {"invalid", "nonobject"}}
    \cup {[NoReq EXCEPT !.kind = "object", !.text = t] :
            t \in {MISSING, NULL, "", "Hello"}}

StopRequests ==
    {[NoReq EXCEPT !.kind = k] : k \in {"invalid", "nonobject"}}
    \cup {[NoReq EXCEPT !.kind = "object", !.session_id = s, !.session_token = t] :
            s \in {MISSING, NULL, "", "sess1"}, t \in {MISSING, NULL, "", "tok1"}}

\* form.get("audio"): absent, a plain text field (possibly empty), or an upload
TranscribeRequests ==
    {[NoReq EXCEPT !.kind = "form", !.audio_kind = "missing"],
     [NoReq EXCEPT !.kind = "form", !.audio_kind = "str", !.audio_str = ""],
     [NoReq EXCEPT !.kind = "form", !.audio_kind = "str", !.audio_str = "abc"],
     [NoReq EXCEPT !.kind = "form", !.audio_kind = "file"]}

(***************************************************************************)
(* Upstream outcomes                                                       *)
(***************************************************************************)
HttpStatuses == {200, 401, 500}
IceLists == {ABSENT, Present(<<>>)}

NoNew ==
    [outcome |-> "none", status |-> 0, json_ok |-> FALSE, data_kind |-> "missing",
     session_id |-> MISSING, offer_kind |-> "missing", sdp |-> MISSING,
     ice_servers2 |-> ABSENT, ice_servers |-> ABSENT]

\* The JSON bodies streaming.new can answer with
NewPayloads ==
    {NoNew}
    \cup {[NoNew EXCEPT !.json_ok = TRUE, !.data_kind = k] : k \in {"missing", "null"}}
    \cup {[NoNew EXCEPT !.json_ok = TRUE, !.data_kind = "obj", !.session_id = sid,
                        !.offer_kind = "obj", !.sdp = sdp,
                        !.ice_servers2 = i2, !.ice_servers = i1] :
            sid \in {MISSING, NULL, "", "sess1", "sess2"},
            sdp \in {MISSING, NULL, "", "v=0"},
            i2 \in IceLists \cup {Present(<<"turn:upstream2">>)},
            i1 \in IceLists \cup {Present(<<"stun:upstream1">>)}}
    \cup {[NoNew EXCEPT !.json_ok = TRUE, !.data_kind = "obj", !.session_id = sid,
                        !.offer_kind = ok] :
            sid \in {MISSING, "sess1"}, ok \in {"missing", "null"}}

\* requests.post(streaming.new): a timeout, a transport error, or an HTTP response
NewOutcomes ==
    {[NoNew EXCEPT !.outcome = o] : o \in {"timeout", "conn_error"}}
    \cup {[p EXCEPT !.outcome = "http", !.status = s] :
            p \in NewPayloads, s \in HttpStatuses}

NoToken ==
    [outcome |-> "none", status |-> 0, json_ok |-> FALSE, data_kind |-> "missing",
     token |-> MISSING]

TokenPayloads ==
    {NoToken}
    \cup {[NoToken EXCEPT !.json_ok = TRUE, !.data_kind = k] : k \in {"missing", "null"}}
    \cup {[NoToken EXCEPT !.json_ok = TRUE, !.data_kind = "obj", !.token = t] :
            t \in {MISSING, NULL, "", "tok1"}}

TokenOutcomes ==
    {[NoToken EXCEPT !.outcome = o] : o \in {"timeout", "conn_error"}}
    \cup {[p EXCEPT !.outcome = "http", !.status = s] :
            p \in TokenPayloads, s \in HttpStatuses}

NoStop == [outcome |-> "none", status |-> 0]

StopOutcomes ==
    {[NoStop EXCEPT !.outcome = o] : o \in {"timeout", "conn_error"}}
    \cup {[NoStop EXCEPT !.outcome = "http", !.status = s] : s \in HttpStatuses}

\* message.content of a choice: None, "" or text
Contents == {NULL, "", "Hi there"}

SeqsUpTo(S, n) == UNION {[1..k -> S] : k \in 0..n}

NoCompletion == [outcome |-> "none", choices |-> <<>>]

CompletionOutcomes ==
    {[NoCompletion EXCEPT !.outcome = "error"]}
    \cup {[NoCompletion EXCEPT !.outcome = "ok", !.choices = c] :
            c \in SeqsUpTo(Contents, MaxChoices)}

NoTranscription == [outcome |-> "none", text |-> MISSING]

TranscriptionOutcomes ==
    {[NoTranscription EXCEPT !.outcome = "error"]}
    \cup {[NoTranscription EXCEPT !.outcome = "ok", !.text = t] :
            t \in {"", "hello world"}}

(***************************************************************************)
(* Responses and the call log                                              *)
(***************************************************************************)
NoResp ==
    [code |-> 0, status |-> MISSING, reply |-> MISSING, text |-> MISSING,
     session_id |-> MISSING, session_token |-> MISSING, offer_sdp |-> MISSING,
     iceServers |-> ABSENT, avatar_name |-> MISSING, raised |-> NoExc]

\* FastAPI turns an escaping HTTPException into a response with its status code
HTTPErrorResponse(e) == [NoResp EXCEPT !.code = e.status, !.raised = e]

\* A returned dict becomes a 200 JSON response
JSONResponse(body) == [body EXCEPT !.code = 200]

Call(ep, arg, auth, ok) == [ep |-> ep, arg |-> arg, auth |-> auth, ok |-> ok]

Init ==
    /\ pc = "idle"
    /\ handler = "none"
    /\ req = NoReq
    /\ r_new = NoNew
    /\ r_token = NoToken
    /\ completion = NoCompletion
    /\ transcription = NoTranscription
    /\ r_stop = NoStop
    /\ calls = <<>>
    /\ resp = NoResp

\* Whether an upstream HTTP call completed without failure: a response arrived
\* and its status is below 400
HttpOk(r) == r.outcome = "http" /\ r.status < 400

(***************************************************************************)
(* start_session                                                           *)
(***************************************************************************)
\* raise_for_status() left out: no status raises
raise_for_status_never(status) == FALSE

\* r.raise_for_status() raises HTTPError
raise_for_status(status) == status >= 400

\* the exception requests.post(...) / raise_for_status() / .json() leaves, if any
requests_post(r, checked) ==
    IF r.outcome = "timeout" THEN Exc("Timeout", 0)
    ELSE IF r.outcome = "conn_error" THEN Exc("ConnectionError", 0)
    ELSE IF checked /\ raise_for_status(r.status) THEN Exc("HTTPError", 0)
    ELSE NoExc

DefaultIce == <<"stun:stun.l.google.com:19302">>

\* dict defaults instead of `or`: an empty upstream list is kept
ice_select_absent_only(ice2, ice1) ==
    IF ice2 # ABSENT THEN ice2[1]
    ELSE IF ice1 # ABSENT THEN ice1[1]
    ELSE DefaultIce

\* data.get("ice_servers2") or data.get("ice_servers") or [default]
ice_select(ice2, ice1) ==
    IF TruthyList(ice2) THEN ice2[1]
    ELSE IF TruthyList(ice1) THEN ice1[1]
    ELSE DefaultIce

\* only the offer is tested
session_missing_offer_only(session_id, offer_sdp) == ~Truthy(offer_sdp)

\* if not session_id or not offer_sdp
session_missing(session_id, offer_sdp) == ~Truthy(session_id) \/ ~Truthy(offer_sdp)

\* `if token is None`: an empty token passes
token_missing_none_only(token) == token = NULL

\* if not token
token_missing(token) == ~Truthy(token)

\* except Exception as e: raise HTTPException(status_code=500, ...)
start_session_except(e) == IF CatchesException(e) THEN Exc("HTTPException", 500) ELSE e

\* Lines 60-72: the exception raised, or the locals session_id, offer_sdp, ice
start_session_new(r) ==
    LET posted == requests_post(r, TRUE)
        \* r_new.json().get("data", {}): an absent data is {}
        session_id == IF r.data_kind = "obj" THEN Get(r.session_id) ELSE NULL
        \* (data.get("offer") or {}).get("sdp")
        offer_sdp == IF r.data_kind = "obj" /\ r.offer_kind = "obj"
                     THEN Get(r.sdp) ELSE NULL
        ice == IF r.data_kind = "obj"
               THEN ice_select(r.ice_servers2, r.ice_servers)
               ELSE ice_select(ABSENT, ABSENT)
        exc == IF posted # NoExc THEN posted
               ELSE IF ~r.json_ok THEN Exc("JSONDecodeError", 0)
               ELSE IF r.data_kind = "null" THEN Exc("AttributeError", 0)
               ELSE IF session_missing(session_id, offer_sdp)
                    THEN Exc("HTTPException", 500)
               ELSE NoExc
    IN [exc |-> exc, session_id |-> session_id, offer_sdp |-> offer_sdp, ice |-> ice]

\* Lines 75-80: the exception raised, or the local token
start_session_token(r) ==
    LET posted == requests_post(r, TRUE)
        \* (r_token.json().get("data") or {}).get("token")
        token == IF r.data_kind = "obj" THEN Get(r.token) ELSE NULL
        exc == IF posted # NoExc THEN posted
               ELSE IF ~r.json_ok THEN Exc("JSONDecodeError", 0)
               ELSE IF token_missing(token) THEN Exc("HTTPException", 500)
               ELSE NoExc
    IN [exc |-> exc, token |-> token]

Req_start_session ==
    /\ pc = "idle"
    /\ pc' = "start_new"
    /\ handler' = "start_session"
    /\ UNCHANGED <<req, r_new, r_token, completion, transcription, r_stop, calls, resp>>

\* 1. Create a new session
start_session_create ==
    /\ pc = "start_new"
    /\ \E r \in NewOutcomes :
        LET res == start_session_new(r) IN
        /\ r_new' = r
        /\ calls' = Append(calls, Call("streaming.new", "June_HR_public", "x-api-key", HttpOk(r)))
        /\ IF res.exc # NoExc
           THEN /\ resp' = HTTPErrorResponse(start_session_except(res.exc))
                /\ pc' = "done"
           ELSE /\ resp' = resp
                /\ pc' = "start_token"
    /\ UNCHANGED <<handler, req, r_token, completion, transcription, r_stop>>

\* 2. Create a session token, and return the descriptor
start_session_create_token ==
    /\ pc = "start_token"
    /\ \E r \in TokenOutcomes :
        LET new == start_session_new(r_new)
            res == start_session_token(r) IN
        /\ r_token' = r
        /\ calls' = Append(calls, Call("streaming.create_token", new.session_id, "x-api-key", HttpOk(r)))
        /\ IF res.exc # NoExc
           THEN resp' = HTTPErrorResponse(start_session_except(res.exc))
           ELSE resp' = JSONResponse([NoResp EXCEPT !.session_id = new.session_id,
                                                    !.session_token = res.token,
                                                    !.offer_sdp = new.offer_sdp,
                                                    !.iceServers = Present(new.ice),
                                                    !.avatar_name = "June HR"])
    /\ pc' = "done"
    /\ UNCHANGED <<handler, req, r_new, completion, transcription, r_stop>>

(***************************************************************************)
(* chat_with_openai                                                        *)
(***************************************************************************)
\* if not user_text
text_missing(user_text) == ~Truthy(user_text)

\* except Exception as e: raise HTTPException(status_code=500, ...)
chat_except(e) == IF CatchesException(e) THEN Exc("HTTPException", 500) ELSE e

\* Lines 99-102: the exception raised before the completion call, if any
chat_validate(q) ==
    IF q.kind = "invalid" THEN Exc("JSONDecodeError", 0)
    ELSE IF q.kind = "nonobject" THEN Exc("AttributeError", 0)
    ELSE IF text_missing(Get(q.text)) THEN Exc("HTTPException", 400)
    ELSE NoExc

\* x or ""
or_empty(content) == IF Truthy(content) THEN content ELSE ""

\* Lines 104-113: completion.choices[0].message.content or ""
chat_reply(c) ==
    LET exc == IF c.outcome # "ok" THEN Exc("APIError", 0)
               ELSE IF Len(c.choices) = 0 THEN Exc("IndexError", 0)
               ELSE NoExc
    IN [exc |-> exc,
        reply |-> IF exc = NoExc THEN or_empty(c.choices[1]) ELSE MISSING]

Req_chat ==
    /\ pc = "idle"
    /\ \E q \in ChatRequests : req' = q
    /\ pc' = "chat_validate"
    /\ handler' = "chat_with_openai"
    /\ UNCHANGED <<r_new, r_token, completion, transcription, r_stop, calls, resp>>

chat_with_openai_validate ==
    /\ pc = "chat_validate"
    /\ LET exc == chat_validate(req) IN
        IF exc # NoExc
        THEN /\ resp' = HTTPErrorResponse(chat_except(exc))
             /\ pc' = "done"
        ELSE /\ resp' = resp
             /\ pc' = "chat_call"
    /\ UNCHANGED <<handler, req, r_new, r_token, completion, transcription, r_stop, calls>>

chat_with_openai_create ==
    /\ pc = "chat_call"
    /\ \E c \in CompletionOutcomes :
        LET res == chat_reply(c) IN
        /\ completion' = c
        /\ calls' = Append(calls, Call("chat.completions", req.text, "api_key", c.outcome = "ok"))
        /\ IF res.exc # NoExc
           THEN resp' = HTTPErrorResponse(chat_except(res.exc))
           ELSE resp' = JSONResponse([NoResp EXCEPT !.reply = res.reply])
    /\ pc' = "done"
    /\ UNCHANGED <<handler, req, r_new, r_token, transcription, r_stop>>

(***************************************************************************)
(* transcribe_audio                                                        *)
(***************************************************************************)
\* `if audio_file == ""`: an absent field passes
audio_missing_empty_only(q) == q.audio_kind = "str" /\ ~Truthy(q.audio_str)

\* if not audio_file: an absent field is None, a text field is a str
audio_missing(q) ==
    \/ q.audio_kind = "missing"
    \/ q.audio_kind = "str" /\ ~Truthy(q.audio_str)

\* except Exception as e: raise HTTPException(status_code=500, ...)
transcribe_except(e) == IF CatchesException(e) THEN Exc("HTTPException", 500) ELSE e

\* Lines 128-129, outside the try, then line 136, inside it: a str has no .filename
transcribe_validate(q) ==
    IF audio_missing(q) THEN Exc("HTTPException", 400)
    ELSE IF q.audio_kind # "file" THEN transcribe_except(Exc("AttributeError", 0))
    ELSE NoExc

Req_transcribe ==
    /\ pc = "idle"
    /\ \E q \in TranscribeRequests : req' = q
    /\ pc' = "transcribe_validate"
    /\ handler' = "transcribe_audio"
    /\ UNCHANGED <<r_new, r_token, completion, transcription, r_stop, calls, resp>>

transcribe_audio_validate ==
    /\ pc = "transcribe_validate"
    /\ LET exc == transcribe_validate(req) IN
        IF exc # NoExc
        THEN /\ resp' = HTTPErrorResponse(exc)
             /\ pc' = "done"
        ELSE /\ resp' = resp
             /\ pc' = "transcribe_call"
    /\ UNCHANGED <<handler, req, r_new, r_token, completion, transcription, r_stop, calls>>

transcribe_audio_create ==
    /\ pc = "transcribe_call"
    /\ \E t \in TranscriptionOutcomes :
        /\ transcription' = t
        /\ calls' = Append(calls, Call("audio.transcriptions", "audio", "api_key", t.outcome = "ok"))
        /\ IF t.outcome # "ok"
           THEN resp' = HTTPErrorResponse(transcribe_except(Exc("APIError", 0)))
           ELSE resp' = JSONResponse([NoResp EXCEPT !.text = t.text])
    /\ pc' = "done"
    /\ UNCHANGED <<handler, req, r_new, r_token, completion, r_stop>>

(***************************************************************************)
(* stop_session                                                            *)
(***************************************************************************)
\* `and` for `or`: one value alone passes
session_info_missing_both(session_id, session_token) ==
    ~Truthy(session_id) /\ ~Truthy(session_token)

\* if not session_id or not session_token
session_info_missing(session_id, session_token) ==
    ~Truthy(session_id) \/ ~Truthy(session_token)

\* the except clause re-raises as the other handlers do
stop_except_reraise(e) == HTTPErrorResponse(Exc("HTTPException", 500))

\* except Exception: return {"status": "failed"}
stop_except(e) ==
    IF CatchesException(e)
    THEN JSONResponse([NoResp EXCEPT !.status = "failed"])
    ELSE HTTPErrorResponse(e)

\* Lines 148-150: the exception raised while reading the body, if any
stop_validate(q) ==
    IF q.kind = "invalid" THEN Exc("JSONDecodeError", 0)
    ELSE IF q.kind = "nonobject" THEN Exc("AttributeError", 0)
    ELSE NoExc

Req_stop ==
    /\ pc = "idle"
    /\ \E q \in StopRequests : req' = q
    /\ pc' = "stop_validate"
    /\ handler' = "stop_session"
    /\ UNCHANGED <<r_new, r_token, completion, transcription, r_stop, calls, resp>>

stop_session_validate ==
    /\ pc = "stop_validate"
    /\ LET exc == stop_validate(req) IN
        IF exc # NoExc
        THEN /\ resp' = stop_except(exc)
             /\ pc' = "done"
        ELSE IF session_info_missing(Get(req.session_id), Get(req.session_token))
        THEN /\ resp' = JSONResponse([NoResp EXCEPT !.status = "ignored"])
             /\ pc' = "done"
        ELSE /\ resp' = resp
             /\ pc' = "stop_call"
    /\ UNCHANGED <<handler, req, r_new, r_token, completion, transcription, r_stop, calls>>

\* requests.post(streaming.stop, timeout=5): the response is not inspected
stop_session_post ==
    /\ pc = "stop_call"
    /\ \E r \in StopOutcomes :
        LET exc == requests_post(r, FALSE) IN
        /\ r_stop' = r
        /\ calls' = Append(calls, Call("streaming.stop", req.session_id, req.session_token, HttpOk(r)))
        /\ IF exc # NoExc
           THEN resp' = stop_except(exc)
           ELSE resp' = JSONResponse([NoResp EXCEPT !.status = "stopped"])
    /\ pc' = "done"
    /\ UNCHANGED <<handler, req, r_new, r_token, completion, transcription>>

\* The response is sent; nothing of the request is kept
Reply ==
    /\ pc = "done"
    /\ pc' = "idle"
    /\ handler' = "none"
    /\ req' = NoReq
    /\ r_new' = NoNew
    /\ r_token' = NoToken
    /\ completion' = NoCompletion
    /\ transcription' = NoTranscription
    /\ r_stop' = NoStop
    /\ calls' = <<>>
    /\ resp' = NoResp

Next ==
    \/ Req_start_session
    \/ start_session_create
    \/ start_session_create_token
    \/ Req_chat
    \/ chat_with_openai_validate
    \/ chat_with_openai_create
    \/ Req_transcribe
    \/ transcribe_audio_validate
    \/ transcribe_audio_create
    \/ Req_stop
    \/ stop_session_validate
    \/ stop_session_post
    \/ Reply

Spec == Init /\ [][Next]_vars

(***************************************************************************)
(* Properties                                                              *)
(***************************************************************************)
Done == pc = "done"
Falsy(v) == v \in {MISSING, NULL, ""}
Called(ep) == \E i \in 1..Len(calls) : calls[i].ep = ep

\* C1: a /api/chat request whose JSON body has a missing or empty text is
\* answered 400, and the completion endpoint is never called for it.
C1_EmptyTextIs400 ==
    (handler = "chat_with_openai" /\ req.kind = "object" /\ Falsy(req.text))
        => /\ calls = <<>>
           /\ Done => resp.code = 400

\* C2: with both session_id and session_token present, /api/stop-session
\* answers "stopped" only if the streaming.stop call completed without failure
\* (no timeout, no transport error, no non-2xx status); every failure is "failed".
C2_StoppedOnlyOnSuccess ==
    (handler = "stop_session" /\ Done /\ req.kind = "object"
     /\ ~Falsy(req.session_id) /\ ~Falsy(req.session_token))
        => /\ resp.status = "stopped" => HttpOk(r_stop)
           /\ ~HttpOk(r_stop) => resp.status = "failed"

\* The session-creation response carries no usable session_id, or no SDP offer
NewLacksField(r) ==
    \/ r.data_kind # "obj"
    \/ Falsy(r.session_id)
    \/ r.offer_kind # "obj"
    \/ Falsy(r.sdp)

\* C3: when the session-creation response lacks session_id or the SDP offer,
\* /api/start-session answers 500 and create_token is never called; a
\* create_token call is always the second call, made after a streaming.new
\* call that succeeded with both fields, and it carries that session_id.
C3_TokenOnlyAfterSession ==
    handler = "start_session" =>
        /\ (r_new.outcome = "http" /\ NewLacksField(r_new))
              => /\ ~Called("streaming.create_token")
                 /\ Done
                 /\ resp.code = 500
        /\ \A i \in 1..Len(calls) :
              calls[i].ep = "streaming.create_token"
                 => /\ i = 2
                    /\ calls[1].ep = "streaming.new"
                    /\ calls[1].ok
                    /\ ~NewLacksField(r_new)
                    /\ calls[i].arg = r_new.session_id

C3_Witness ==
    /\ handler = "start_session" /\ Done
    /\ r_new.outcome = "http" /\ r_new.status = 200 /\ r_new.data_kind = "obj"
    /\ r_new.session_id = MISSING /\ r_new.sdp = "v=0"
    /\ resp.code = 500
    /\ Len(calls) = 1

\* C4: /api/stop-session never raises: whatever the body and whatever the
\* outcome of the stop call, the response is 200 with status "stopped",
\* "ignored" or "failed", and it is "failed" when the stop call throws or
\* times out.
C4_StopNeverRaises ==
    (handler = "stop_session" /\ Done)
        => /\ resp.code = 200
           /\ resp.status \in {"stopped", "ignored", "failed"}
           /\ resp.raised = NoExc
           /\ r_stop.outcome \in {"timeout", "conn_error"} => resp.status = "failed"

C4_Witness ==
    /\ handler = "stop_session" /\ Done
    /\ r_stop.outcome = "timeout"
    /\ resp.code = 200 /\ resp.status = "failed"

\* C5 as stated: every /api/stop-session request in which session_id or
\* session_token is missing, null or empty is answered "ignored", with no
\* outbound call.
C5_MissingIsIgnored ==
    (handler = "stop_session" /\ Done
     /\ (Falsy(req.session_id) \/ Falsy(req.session_token)))
        => /\ resp.status = "ignored"
           /\ calls = <<>>

\* C5 amended: a request whose body is a JSON object in which session_id or
\* session_token is missing, null or empty is answered "ignored"; a body that
\* is not JSON or not a JSON object is answered "failed"; in both cases no
\* outbound call is issued, and a stop call is issued only when both values
\* are present.
C5_MissingIsIgnoredForObjects ==
    handler = "stop_session" =>
        /\ (Done /\ req.kind = "object"
            /\ (Falsy(req.session_id) \/ Falsy(req.session_token)))
              => resp.status = "ignored"
        /\ (Done /\ req.kind # "object") => resp.status = "failed"
        /\ (Falsy(req.session_id) \/ Falsy(req.session_token)) => calls = <<>>
        /\ \A i \in 1..Len(calls) :
              /\ calls[i].ep = "streaming.stop"
              /\ req.kind = "object"
              /\ ~Falsy(req.session_id) /\ ~Falsy(req.session_token)

C5_Witness ==
    /\ handler = "stop_session" /\ Done
    /\ req.kind = "object"
    /\ req.session_id = NULL /\ req.session_token = NULL
    /\ resp.status = "ignored"
    /\ calls = <<>>

\* C6: a /api/transcribe request whose form has no "audio" field is answered
\* 400, and the speech-to-text endpoint is never called for it.
C6_NoAudioIs400 ==
    (handler = "transcribe_audio" /\ req.audio_kind = "missing")
        => /\ calls = <<>>
           /\ Done => resp.code = 400

C6_Witness ==
    /\ handler = "transcribe_audio" /\ Done
    /\ req.audio_kind = "missing"
    /\ resp.code = 400
    /\ calls = <<>>

StartOk == handler = "start_session" /\ Done /\ resp.code = 200

\* C7 as stated: a session-creation response with session_id and SDP offer but
\* no ice_servers field yields the default single-entry STUN list.
C7_NoIceServersIsDefault ==
    (StartOk /\ r_new.ice_servers = ABSENT)
        => resp.iceServers = Present(DefaultIce)

\* C7 amended: the upstream response has two ICE fields.  When ice_servers2 and
\* ice_servers are both absent or empty the returned iceServers is the default
\* single-entry STUN list; otherwise it is ice_servers2 if that is non-empty,
\* else ice_servers; the returned list is never empty or absent.
C7_IceFallback ==
    StartOk =>
        /\ (~TruthyList(r_new.ice_servers2) /\ ~TruthyList(r_new.ice_servers))
              => resp.iceServers = Present(DefaultIce)
        /\ TruthyList(r_new.ice_servers2) => resp.iceServers = r_new.ice_servers2
        /\ (~TruthyList(r_new.ice_servers2) /\ TruthyList(r_new.ice_servers))
              => resp.iceServers = r_new.ice_servers
        /\ resp.iceServers # ABSENT
        /\ Len(resp.iceServers[1]) > 0
        /\ Len(DefaultIce) = 1

C7_Witness ==
    /\ StartOk
    /\ r_new.ice_servers2 = ABSENT /\ r_new.ice_servers = ABSENT
    /\ resp.iceServers = Present(DefaultIce)

\* C8: on a valid /api/chat request for which the provider returns, the handler
\* answers 200 with reply = the first completion's text, and reply is "" (never
\* null, never an error) whenever the provider returns no completion text.
C8_ReplyDefaultsToEmpty ==
    (handler = "chat_with_openai" /\ Done /\ req.kind = "object"
     /\ ~Falsy(req.text) /\ completion.outcome = "ok")
        => /\ resp.code = 200
           /\ resp.reply # NULL
           /\ resp.reply = IF Len(completion.choices) > 0
                              /\ ~Falsy(completion.choices[1])
                           THEN completion.choices[1]
                           ELSE ""

\* C9: a 200 /api/start-session response carries the non-empty session_id and
\* offer_sdp of the session-creation response and the non-empty token of the
\* token-creation response; a token-creation response without a token is
\* answered 500.
C9_DescriptorComplete ==
    handler = "start_session" =>
        /\ (Done /\ resp.code = 200)
              => /\ resp.session_id = r_new.session_id /\ ~Falsy(resp.session_id)
                 /\ resp.offer_sdp = r_new.sdp /\ ~Falsy(resp.offer_sdp)
                 /\ resp.session_token = r_token.token /\ ~Falsy(resp.session_token)
        /\ (Done /\ r_token.outcome = "http"
            /\ (r_token.data_kind # "obj" \/ Falsy(r_token.token)))
              => resp.code = 500

C9_Witness ==
    /\ StartOk
    /\ resp.session_id = "sess2" /\ resp.offer_sdp = "v=0" /\ resp.session_token = "tok1"
    /\ Len(calls) = 2

====
